---- MODULE Spec2Model ----
(***************************************************************************)
(* Calmdog (src/src/main.cpp): an ESP32 sketch that calibrates a noise     *)
(* threshold, detects noise sustained for more than TRIGGER_DURATION and   *)
(* then plays /calm.wav from the SD card through the DAC.                  *)
(*                                                                         *)
(* The sketch is single threaded: setup() runs once, loop() is called      *)
(* forever, reproducirAudio() is called synchronously from loop().  pc is  *)
(* the position of that one thread of control.                             *)
(*                                                                         *)
(* Time.  millis() is an unsigned long (32 bits on the ESP32).  A 32-bit   *)
(* value is kept as two 16-bit limbs [hi, lo] so that the arithmetic is    *)
(* the arithmetic modulo 2^32 of the code.  us is the part of the running  *)
(* time below one millisecond, in microseconds (delayMicroseconds(125)).   *)
(* Only the delays the source writes take time.                            *)
(***************************************************************************)
EXTENDS Integers, Sequences, FiniteSets

\* ---------------------------------------------------------------- constants
CALIBRATION_SETTLE == 1000      \* delay(1000) in calibrarUmbral
CALIBRATION_INTERVAL == 10      \* delay(10) between two baseline samples
MUESTRAS == 100                 \* int muestras = 100
TRIGGER_DURATION == 2000
PLAYBACK_DURATION == 30000
VOLUME_LEVEL == 180
HEADER_SIZE == 44               \* uint8_t header[44]
BUFFER_SIZE == 512              \* uint8_t buffer[512]
SAMPLE_DELAY_US == 125          \* delayMicroseconds(125)
LOOP_DELAY == 10                \* delay(10) at the end of loop()
HALT_DELAY == 1000              \* while (1) delay(1000)
LIMB == 65536                   \* 2^16: an unsigned long is two limbs

\* ------------------------------------------------------------------- bounds
MaxSample == 4095               \* the largest sample loop() is given (12-bit analogRead)
MaxCalSample == 1               \* baseline samples are drawn from 0..MaxCalSample
MaxClock == 6040                \* loop() and the halt loop are followed up to this clock (ms)
MaxQuietClock == 2550           \* samples at or below the threshold arrive up to this clock (ms)
LongChunks == 470               \* chunks in the stream of the long asset
MaxWrapClock == 20              \* loop() is followed within this many ms of the wrap of millis()
MaxEscrito == 700               \* DAC writes of one call that are recorded one by one

\* --------------------------------------------------- 32-bit unsigned values
U32(h, l) == [hi |-> h, lo |-> l]

Zero32 == U32(0, 0)

\* a + n modulo 2^32, for 0 <= n < 2^16
Add32(a, n) ==
    LET s == a.lo + n
    IN  U32((a.hi + (s \div LIMB)) % LIMB, s % LIMB)

\* a - b modulo 2^32 (unsigned long subtraction)
Sub32(a, b) ==
    LET l == a.lo - b.lo
        borrow == IF l < 0 THEN 1 ELSE 0
    IN  U32((a.hi - b.hi - borrow + LIMB) % LIMB, (l + LIMB) % LIMB)

\* a > c for an unsigned long a and a constant 0 <= c < 2^16
Gt32(a, c) == a.hi > 0 \/ a.lo > c

\* ------------------------------------------------------------ pure helpers
\* Arduino map(x, 0, 255, 0, VOLUME_LEVEL): long arithmetic, truncating division
map(x, in_min, in_max, out_min, out_max) ==
    ((x - in_min) * (out_max - out_min)) \div (in_max - in_min) + out_min

\* int promedio = suma / muestras (integer division)
Promedio(s) == s \div MUESTRAS

\* (int)(promedio * 2.5): the product is exact in a double, the cast truncates
UmbralDe(promedio) == (promedio * 25) \div 10

\* ------------------------------------------------------------------ inputs
\* values analogRead(PIN_MIC) returns in loop()
Muestras == {0, 2, MaxSample}

\* values analogRead(PIN_MIC) returns during calibration
MuestrasCalibracion == 0..MaxCalSample

\* The files /calm.wav can be.  len is the file's length in bytes, magic its
\* first four bytes (as many as it has), seed fixes the other bytes.
RIFF == <<82, 73, 70, 70>>

Assets ==
    << [len |-> 2,                                    magic |-> <<82, 73>>,         seed |-> 0],
       [len |-> HEADER_SIZE + 100,                    magic |-> <<82, 73, 70, 88>>, seed |-> 1],
       [len |-> HEADER_SIZE,                          magic |-> RIFF,               seed |-> 2],
       [len |-> HEADER_SIZE + 100,                    magic |-> RIFF,               seed |-> 3],
       [len |-> HEADER_SIZE + BUFFER_SIZE + 100,      magic |-> RIFF,               seed |-> 4],
       [len |-> HEADER_SIZE + LongChunks * BUFFER_SIZE, magic |-> RIFF,             seed |-> 5] >>

AssetIds == 1..Len(Assets)

\* the byte at offset p (p < len) of asset a
FileByte(a, p) ==
    IF p < Len(Assets[a].magic) THEN Assets[a].magic[p + 1]
    ELSE (p * 37 + Assets[a].seed) % 256

\* header[0..3] after archivo.read(header, 44): the bytes the file has; the
\* rest of the array is uninitialized, so any byte may be found there (here:
\* 0 or the byte of "RIFF" that would make the check pass)
Cabeceras(a) ==
    LET byte(k, b) == IF k <= Len(Assets[a].magic) THEN Assets[a].magic[k]
                      ELSE IF b[k] THEN RIFF[k] ELSE 0
    IN  { <<byte(1, b), byte(2, b), byte(3, b), byte(4, b)>> : b \in [1..4 -> BOOLEAN] }

\* mutant: the fourth byte is not compared
CabeceraInvalidaTresBytes(h) == h[1] # 82 \/ h[2] # 73 \/ h[3] # 70

\* header[0] != 'R' || header[1] != 'I' || header[2] != 'F' || header[3] != 'F'
CabeceraInvalida(h) == h[1] # 82 \/ h[2] # 73 \/ h[3] # 70 \/ h[4] # 70

\* archivo.read(buffer, n) at offset pos of asset a: the number of bytes read
Leidos(a, pos, n) ==
    LET quedan == Assets[a].len - pos
    IN  IF quedan <= 0 THEN 0 ELSE IF quedan < n THEN quedan ELSE n

\* ------------------------------------------------------------ comparisons
\* nivelSonido > umbralRuido
SobreUmbral(s, umbral) == s > umbral

\* a <= b for two unsigned long values
Le32(a, b) == a.hi < b.hi \/ (a.hi = b.hi /\ a.lo <= b.lo)

\* mutant: >= where the code has >
SostenidoDesdeIgual(t, desde) == Gt32(Sub32(t, desde), TRIGGER_DURATION - 1)

\* mutant: the window is one poll longer
SostenidoTarde(t, desde) == Gt32(Sub32(t, desde), TRIGGER_DURATION + LOOP_DELAY)

\* millis() - ultimoRuido > TRIGGER_DURATION
Sostenido(t, desde) == Gt32(Sub32(t, desde), TRIGGER_DURATION)

\* mutant: the cap is checked against a later limit
ExcedidoTarde(t, desde) == Gt32(Sub32(t, desde), PLAYBACK_DURATION + 100)

\* millis() - inicioReproduccion > PLAYBACK_DURATION
Excedido(t, desde) == Gt32(Sub32(t, desde), PLAYBACK_DURATION)

\* -------------------------------------------------------------------- state
VARIABLES
    pc,                 \* position of the thread of control
    now,                \* millis(), 32 bits
    us,                 \* microseconds of the running time below one millisecond
    umbralRuido,        \* int umbralRuido
    reproduciendo,      \* bool reproduciendo
    ultimoRuido,        \* unsigned long ultimoRuido (0: no noise episode)
    inicioReproduccion, \* unsigned long inicioReproduccion
    suma, i,            \* locals of calibrarUmbral
    nivelSonido,        \* local of loop(): the last sample read
    archivo,            \* local of reproducirAudio: the File and its read offset
    dacHabilitado,      \* dac_output_enable was called
    dacNivel,           \* the level the DAC holds
    abiertos,           \* open file handles
    evento,             \* history: what the last detector observation emitted
    resultado,          \* history: how the call of reproducirAudio in progress ended
    todasSobre,         \* history: every sample since ultimoRuido was recorded was above
    racha,              \* history: clock of the first sample of the present run of above-threshold samples
    disparosRacha,      \* history: triggers during the present run (capped at 2)
    ultimoDisparo,      \* history: clock of the last Triggered of the present run
    llamada,            \* history of the call of reproducirAudio in progress
    escrito,            \* history: the values written to the DAC by the call in progress
    log,                \* Serial: the lines printed since loop() was last entered
    logCompletado,      \* history: the lines of the last call that ended at the end of its stream
    ultimoRetorno,      \* history: clock and outcome of the last return of reproducirAudio
    muestreado,         \* history: loop() has read a sample
    montajes,           \* history: calls of SD.begin (up to 2)
    sdSetup,            \* history: what SD.begin returned in setup()
    umbralEscrito       \* history: assignments to umbralRuido (up to 2)

vars == <<pc, now, us, umbralRuido, reproduciendo, ultimoRuido, inicioReproduccion,
          suma, i, nivelSonido, archivo, dacHabilitado, dacNivel, abiertos,
          evento, resultado, todasSobre, racha, disparosRacha, ultimoDisparo, llamada,
          escrito, log, logCompletado, ultimoRetorno, muestreado, montajes, sdSetup,
          umbralEscrito>>

SinArchivo == [abierto |-> FALSE, asset |-> 0, pos |-> 0]

SinRacha == [hay |-> FALSE, t |-> Zero32]

SinRetorno == [hay |-> FALSE, t |-> Zero32, resultado |-> "none"]

SinEscrito == [v |-> <<>>, completo |-> TRUE]

SinLlamada ==
    [activa |-> FALSE, escrituras |-> 0, habilitaciones |-> 0, marcada |-> FALSE,
     inicioPrevio |-> Zero32, salida |-> "none", cabecera |-> <<>>]

\* globals of the sketch as the C++ initializers leave them, millis() = 0 at boot
Init ==
    /\ pc = "setup"
    /\ now = Zero32
    /\ us = 0
    /\ umbralRuido = 0
    /\ reproduciendo = FALSE
    /\ ultimoRuido = Zero32
    /\ inicioReproduccion = Zero32
    /\ suma = 0
    /\ i = 0
    /\ nivelSonido = 0
    /\ archivo = SinArchivo
    /\ dacHabilitado = FALSE
    /\ dacNivel = 0
    /\ abiertos = 0
    /\ evento = "None"
    /\ resultado = "none"
    /\ todasSobre = FALSE
    /\ racha = SinRacha
    /\ disparosRacha = 0
    /\ ultimoDisparo = SinRacha
    /\ llamada = SinLlamada
    /\ escrito = SinEscrito
    /\ log = <<>>
    /\ logCompletado = <<>>
    /\ ultimoRetorno = SinRetorno
    /\ muestreado = FALSE
    /\ montajes = 0
    /\ sdSetup = "none"
    /\ umbralEscrito = 0

\* the clock after a delay of n microseconds
Despues(n) ==
    LET total == us + n
    IN  [now |-> Add32(now, total \div 1000), us |-> total % 1000]

\* delay(ms)
Delay(ms) ==
    /\ now' = Despues(ms * 1000).now
    /\ us' = Despues(ms * 1000).us

\* millis() when loop() is first entered: the delays of calibrarUmbral
InicioLoop == CALIBRATION_SETTLE + MUESTRAS * CALIBRATION_INTERVAL

\* within MaxWrapClock ms of the wrap of millis(), before or after it
EnVentana ==
    \/ now.hi = LIMB - 1 /\ now.lo >= LIMB - MaxWrapClock
    \/ now.hi = 0 /\ now.lo <= MaxWrapClock

EnReloj == EnVentana \/ (now.hi = 0 /\ now.lo >= InicioLoop /\ now.lo <= MaxClock)

HaySilencio == EnVentana \/ (now.hi = 0 /\ now.lo <= MaxQuietClock)

detector == <<ultimoRuido, nivelSonido, evento, todasSobre, racha, disparosRacha, ultimoDisparo,
              ultimoRetorno, muestreado>>
reproduccion == <<reproduciendo, inicioReproduccion, archivo, dacNivel, abiertos, resultado,
                  llamada, escrito, log, logCompletado>>
calibracion == <<suma, i, umbralRuido, umbralEscrito>>
sd == <<montajes, sdSetup>>

\* ------------------------------------------------------------------ setup()
\* mutant: calibration runs although SD.begin failed
TrasFalloSDCalibra == "calibrar"

\* while (1) delay(1000): where setup() goes when SD.begin fails
TrasFalloSD == "halt"

\* a count of calls, kept up to 2
Mas(n) == IF n < 2 THEN n + 1 ELSE 2

\* setup() up to the call of calibrarUmbral and its delay(1000)
setup ==
    /\ pc = "setup"
    /\ dacHabilitado' = TRUE
    /\ montajes' = Mas(montajes)
    /\ \E sdOk \in BOOLEAN :
        LET destino == IF sdOk THEN "calibrar" ELSE TrasFalloSD
        IN  /\ sdSetup' = IF sdOk THEN "ok" ELSE "fail"
            /\ pc' = destino
            /\ IF destino = "calibrar"
               THEN /\ suma' = 0
                    /\ i' = 0
                    /\ Delay(CALIBRATION_SETTLE)
               ELSE UNCHANGED <<now, us, suma, i>>
    /\ UNCHANGED <<umbralRuido, umbralEscrito, detector, reproduccion>>

\* while (1) delay(1000)
halt ==
    /\ pc = "halt"
    /\ now.hi = 0 /\ now.lo <= MaxClock
    /\ Delay(HALT_DELAY)
    /\ UNCHANGED <<pc, dacHabilitado, sd, calibracion, detector, reproduccion>>

\* one iteration of the sampling loop of calibrarUmbral
calibrarMuestra ==
    /\ pc = "calibrar"
    /\ i < MUESTRAS
    /\ \E s \in MuestrasCalibracion : suma' = suma + s
    /\ i' = i + 1
    /\ Delay(CALIBRATION_INTERVAL)
    /\ UNCHANGED <<pc, umbralRuido, umbralEscrito, dacHabilitado, sd, detector, reproduccion>>

\* promedio and umbralRuido
calibrarUmbral ==
    /\ pc = "calibrar"
    /\ i = MUESTRAS
    /\ umbralRuido' = UmbralDe(Promedio(suma))
    /\ umbralEscrito' = Mas(umbralEscrito)
    /\ pc' = "calibrado"
    /\ UNCHANGED <<now, us, suma, i, dacHabilitado, sd, detector, reproduccion>>

\* mutant: calibrarUmbral is called again
TrasSetupCalibra == "calibrar"

\* setup() returns after its one call of calibrarUmbral: loop() runs from then on
TrasSetup == "loop"

\* calibrarUmbral returns, setup() returns
setupFin ==
    /\ pc = "calibrado"
    /\ pc' = TrasSetup
    /\ suma' = 0
    /\ i' = 0
    /\ UNCHANGED <<now, us, umbralRuido, umbralEscrito, dacHabilitado, sd, detector,
                   reproduccion>>

\* ------------------------------------------------------------------- loop()
\* mutant: the timestamp survives a sample at or below the threshold
RuidoCesaSinReset == ultimoRuido

\* mutant: the timestamp survives the trigger
ResetDeteccionOlvidado == ultimoRuido

\* mutant: no pause at the end of loop()
PausaOmitida == UNCHANGED <<now, us>>

\* ultimoRuido = 0; // Resetear si el ruido cesa
RuidoCesa == Zero32

\* ultimoRuido = 0; // Resetear deteccion
ResetDeteccion == Zero32

\* delay(10); // Pequena pausa para estabilidad
Pausa == Delay(LOOP_DELAY)

\* One call of loop() from its entry: to its return, or to the call of
\* reproducirAudio when the detector triggers.
loop ==
    /\ pc = "loop"
    /\ EnReloj
    /\ IF reproduciendo
       THEN \* the cap is checked, then return: no sample, no delay(10)
            /\ reproduciendo' = ~Excedido(now, inicioReproduccion)
            /\ log' = IF Excedido(now, inicioReproduccion)
                      THEN Append(log, "Reproduccion detenida por tiempo maximo.")
                      ELSE log
            /\ UNCHANGED <<pc, now, us, detector, inicioReproduccion, archivo,
                           dacNivel, abiertos, resultado, llamada, escrito, logCompletado>>
       ELSE \E s \in Muestras :
            /\ SobreUmbral(s, umbralRuido) \/ HaySilencio
            /\ nivelSonido' = s
            /\ muestreado' = TRUE
            /\ IF SobreUmbral(s, umbralRuido)
               THEN /\ racha' = IF racha.hay THEN racha ELSE [hay |-> TRUE, t |-> now]
                    /\ IF ultimoRuido = Zero32
                       THEN /\ ultimoRuido' = now
                            /\ todasSobre' = TRUE
                            /\ evento' = "None"
                            /\ pc' = "loop"
                            /\ Pausa
                            /\ UNCHANGED <<disparosRacha, ultimoDisparo, ultimoRetorno,
                                           reproduccion>>
                       ELSE IF Sostenido(now, ultimoRuido)
                       THEN /\ evento' = "Triggered"
                            /\ disparosRacha' = IF disparosRacha < 2 THEN disparosRacha + 1 ELSE 2
                            /\ ultimoDisparo' = [hay |-> TRUE, t |-> now]
                            /\ pc' = "reproducirAudio"
                            /\ llamada' = [SinLlamada EXCEPT !.activa = TRUE,
                                                              !.inicioPrevio = inicioReproduccion]
                            /\ log' = Append(log, "Ruido detectado! Activando musica relajante.")
                            /\ UNCHANGED <<now, us, ultimoRuido, todasSobre, ultimoRetorno,
                                           reproduciendo, inicioReproduccion, archivo,
                                           dacNivel, abiertos, resultado, escrito,
                                           logCompletado>>
                       ELSE /\ evento' = "None"
                            /\ pc' = "loop"
                            /\ Pausa
                            /\ UNCHANGED <<ultimoRuido, todasSobre, disparosRacha,
                                           ultimoDisparo, ultimoRetorno, reproduccion>>
               ELSE /\ ultimoRuido' = RuidoCesa
                    /\ todasSobre' = FALSE
                    /\ racha' = SinRacha
                    /\ disparosRacha' = 0
                    /\ evento' = "None"
                    /\ pc' = "loop"
                    /\ Pausa
                    /\ ultimoDisparo' = SinRacha
                    /\ ultimoRetorno' = SinRetorno
                    /\ UNCHANGED reproduccion
    /\ UNCHANGED <<dacHabilitado, sd, calibracion>>

\* reproducirAudio has returned to loop(): ultimoRuido = 0, delay(10), return
loopRetorno ==
    /\ pc = "retorno"
    /\ ultimoRuido' = ResetDeteccion
    /\ Pausa
    /\ pc' = "loop"
    /\ ultimoRetorno' = [hay |-> TRUE, t |-> now, resultado |-> resultado]
    /\ resultado' = "none"
    /\ llamada' = SinLlamada
    /\ archivo' = SinArchivo
    /\ escrito' = SinEscrito
    /\ log' = <<>>
    /\ UNCHANGED <<nivelSonido, evento, todasSobre, racha, disparosRacha, ultimoDisparo,
                   muestreado, reproduciendo, inicioReproduccion, dacNivel, abiertos,
                   logCompletado, dacHabilitado, sd, calibracion>>

\* A long quiet period: the calls of loop() that each read a sample at or below
\* the threshold (0 is never above it) and pause 10 ms, up to the first one
\* that is entered within MaxWrapClock ms of the wrap of millis().
silencioProlongado ==
    /\ pc = "loop"
    /\ ~reproduciendo
    /\ now.hi = 0 /\ now.lo >= InicioLoop /\ now.lo <= MaxClock
    /\ ~SobreUmbral(0, umbralRuido)
    /\ LET resto == ((LIMB % LOOP_DELAY) * (LIMB % LOOP_DELAY)) % LOOP_DELAY
           r == (now.lo + MaxWrapClock - resto) % LOOP_DELAY
       IN  now' = U32(LIMB - 1, LIMB - MaxWrapClock + r)
    /\ nivelSonido' = 0
    /\ muestreado' = TRUE
    /\ ultimoRuido' = RuidoCesa
    /\ todasSobre' = FALSE
    /\ racha' = SinRacha
    /\ disparosRacha' = 0
    /\ evento' = "None"
    /\ ultimoDisparo' = SinRacha
    /\ ultimoRetorno' = SinRetorno
    /\ UNCHANGED <<pc, us, reproduccion, dacHabilitado, sd, calibracion>>

\* -------------------------------------------------------- reproducirAudio()
\* mutant: the for loop starts at the second byte of the buffer
EscritosDesdeUno(a, pos, leidos) ==
    [k \in 1..(leidos - 1) |-> map(FileByte(a, pos + k), 0, 255, 0, VOLUME_LEVEL)]

\* mutant: the sample is written as read
NivelSinEscala(b) == b

\* map(buffer[i], 0, 255, 0, VOLUME_LEVEL)
Nivel(b) == map(b, 0, 255, 0, VOLUME_LEVEL)

\* the values the for loop writes to the DAC for the chunk read at offset pos
Escritos(a, pos, leidos) ==
    [k \in 1..leidos |-> Nivel(FileByte(a, pos + k - 1))]

\* the record of the DAC writes of the call, after the n writes vs: kept value
\* by value up to MaxEscrito writes
Anotar(e, n, vs) ==
    IF e.completo /\ Len(e.v) + n <= MaxEscrito
    THEN [e EXCEPT !.v = e.v \o vs]
    ELSE [v |-> <<>>, completo |-> FALSE]

\* From the entry to the first read of the stream: SD.begin, SD.open, the
\* header and its check, dac_output_enable, reproduciendo, inicioReproduccion.
reproducirAudio ==
    /\ pc = "reproducirAudio"
    /\ montajes' = Mas(montajes)
    /\ \E sdOk \in BOOLEAN, existe \in BOOLEAN, a \in AssetIds :
       \E h \in Cabeceras(a) :
        IF ~sdOk
        THEN /\ resultado' = "StorageUnavailable"
             /\ log' = Append(log, "Error: No se pudo inicializar la tarjeta SD")
             /\ pc' = "retorno"
             /\ UNCHANGED <<reproduciendo, inicioReproduccion, archivo, abiertos,
                            llamada, dacHabilitado>>
        ELSE IF ~existe
        THEN /\ resultado' = "NotFound"
             /\ log' = Append(log, "Error: No se encontro calm.wav")
             /\ pc' = "retorno"
             /\ UNCHANGED <<reproduciendo, inicioReproduccion, archivo, abiertos,
                            llamada, dacHabilitado>>
        ELSE IF CabeceraInvalida(h)
        THEN \* opened, header read, closed
             /\ resultado' = "InvalidFormat"
             /\ log' = Append(log, "Error: Archivo no es WAV valido")
             /\ pc' = "retorno"
             /\ archivo' = [abierto |-> FALSE, asset |-> a,
                            pos |-> Leidos(a, 0, HEADER_SIZE)]
             /\ abiertos' = (abiertos + 1) - 1
             /\ llamada' = [llamada EXCEPT !.cabecera = h]
             /\ UNCHANGED <<reproduciendo, inicioReproduccion, dacHabilitado>>
        ELSE /\ archivo' = [abierto |-> TRUE, asset |-> a,
                            pos |-> Leidos(a, 0, HEADER_SIZE)]
             /\ abiertos' = abiertos + 1
             /\ log' = Append(log, "Reproduciendo audio...")
             /\ dacHabilitado' = TRUE
             /\ reproduciendo' = TRUE
             /\ inicioReproduccion' = now
             /\ llamada' = [llamada EXCEPT !.cabecera = h,
                                           !.habilitaciones = @ + 1,
                                           !.marcada = TRUE]
             /\ pc' = "stream"
             /\ UNCHANGED resultado
    /\ UNCHANGED <<now, us, dacNivel, escrito, logCompletado, sdSetup, detector, calibracion>>

\* One evaluation of the while condition and, when it holds, one pass of the
\* body: the chunk is written sample by sample, then the cap is checked.
chunk ==
    /\ pc = "stream"
    /\ LET leidos == Leidos(archivo.asset, archivo.pos, BUFFER_SIZE)
           t == Despues(leidos * SAMPLE_DELAY_US)
       IN  IF leidos > 0 /\ reproduciendo
           THEN /\ archivo' = [archivo EXCEPT !.pos = @ + leidos]
                /\ dacNivel' = Nivel(FileByte(archivo.asset, archivo.pos + leidos - 1))
                /\ escrito' = Anotar(escrito, leidos,
                                      Escritos(archivo.asset, archivo.pos, leidos))
                /\ now' = t.now
                /\ us' = t.us
                /\ IF Excedido(t.now, inicioReproduccion)
                   THEN /\ pc' = "fin"
                        /\ llamada' = [llamada EXCEPT !.escrituras = @ + leidos,
                                                      !.salida = "break"]
                   ELSE /\ pc' = "stream"
                        /\ llamada' = [llamada EXCEPT !.escrituras = @ + leidos]
           ELSE /\ archivo' = [archivo EXCEPT !.pos = @ + leidos]
                /\ pc' = "fin"
                /\ llamada' = [llamada EXCEPT !.salida = "while"]
                /\ UNCHANGED <<now, us, dacNivel, escrito>>
    /\ UNCHANGED <<reproduciendo, inicioReproduccion, abiertos, resultado, log,
                   logCompletado, dacHabilitado, sd, detector, calibracion>>

\* mutant: the last sample stays on the output
SilencioOlvidado == dacNivel

\* mutant: the flag stays set
FinReproduccionOlvidado == reproduciendo

\* dac_output_voltage(DAC_CHANNEL_1, 0); // Silencio
Silencio == 0

\* reproduciendo = false
FinReproduccion == FALSE

\* after the while: archivo.close(), silence, reproduciendo = false, return
fin ==
    /\ pc = "fin"
    /\ archivo' = [archivo EXCEPT !.abierto = FALSE]
    /\ abiertos' = abiertos - 1
    /\ dacNivel' = Silencio
    /\ escrito' = Anotar(escrito, 1, <<Silencio>>)
    /\ reproduciendo' = FinReproduccion
    /\ llamada' = [llamada EXCEPT !.escrituras = @ + 1]
    /\ resultado' = IF llamada.salida = "break" THEN "MaxDurationExceeded" ELSE "Completed"
    /\ log' = Append(log, "Reproduccion finalizada.")
    /\ logCompletado' = IF llamada.salida = "break" THEN logCompletado
                        ELSE Append(log, "Reproduccion finalizada.")
    /\ pc' = "retorno"
    /\ UNCHANGED <<now, us, inicioReproduccion, dacHabilitado, sd, detector, calibracion>>

\* ----------------------------------------------------------- specification
Next ==
    \/ setup
    \/ halt
    \/ calibrarMuestra
    \/ calibrarUmbral
    \/ setupFin
    \/ loop
    \/ silencioProlongado
    \/ loopRetorno
    \/ reproducirAudio
    \/ chunk
    \/ fin

Spec == Init /\ [][Next]_vars

\* ------------------------------------------------------------------ claims
\* the time elapsed on the 32-bit clock since t
Desde(t) == Sub32(now, t)

\* the state in which loop() has just emitted Triggered and calls reproducirAudio
Disparado == pc = "reproducirAudio"

\* C1: Triggered is emitted only when the sample is above the threshold, every
\* sample since ultimoRuido was recorded was above it, and the clock minus
\* ultimoRuido is more than 2000 ms; the run of above-threshold samples that
\* triggers has lasted more than 2000 ms.
C1_TriggerOnlySustained ==
    Disparado =>
        /\ evento = "Triggered"
        /\ nivelSonido > umbralRuido
        /\ ultimoRuido # Zero32
        /\ todasSobre
        /\ Gt32(Desde(ultimoRuido), 2000)
        /\ racha.hay
        /\ Gt32(Desde(racha.t), 2000)

\* a trigger at the first poll after the window: started at 2000 ms, fired at 4010 ms
C1_Witness ==
    /\ Disparado
    /\ ultimoRuido = U32(0, 2000)
    /\ now = U32(0, 4010)
    /\ todasSobre

\* C2 as claimed: at most one Triggered within one uninterrupted run of
\* above-threshold samples.
C2_OneTriggerPerRun == disparosRacha <= 1

\* C2 amended: one uninterrupted run can trigger more than once.  A Triggered
\* clears ultimoRuido when reproducirAudio returns; a timestamp held after a
\* Triggered of the run was recorded by a sample polled after that Triggered,
\* and the next Triggered needs more than 2000 ms of above-threshold samples
\* counted from that sample.
C2_RetriggerNeedsNewWindow ==
    /\ (pc = "loop" /\ evento = "Triggered") => ultimoRuido = Zero32
    /\ (pc = "loop" /\ ultimoDisparo.hay /\ ultimoRuido # Zero32) =>
          /\ Le32(U32(0, 10), Sub32(ultimoRuido, ultimoDisparo.t))
          /\ Le32(Sub32(ultimoRuido, ultimoDisparo.t), Desde(ultimoDisparo.t))
    /\ Disparado => (todasSobre /\ Gt32(Desde(ultimoRuido), 2000))

\* the second Triggered of one run
C2_Witness == Disparado /\ disparosRacha = 2 /\ racha.t = U32(0, 2000)

\* C3: polled every 10 ms, a run that stays above the threshold triggers at the
\* first poll at which more than 2000 ms have elapsed (2010 ms after the first
\* sample of the window), no such poll passes without a trigger, and at the
\* next poll after the trigger ultimoRuido is 0.
C3_TriggerAtFirstPollPastWindow ==
    /\ Disparado => Desde(ultimoRuido) = U32(0, 2010)
    /\ (pc = "loop" /\ ultimoRuido # Zero32) => Le32(Desde(ultimoRuido), U32(0, 2010))
    /\ (pc = "loop" /\ evento = "Triggered") => ultimoRuido = Zero32

\* the poll that follows a trigger, after a playback that ran to the end of its stream
C3_Witness ==
    /\ pc = "loop"
    /\ evento = "Triggered"
    /\ ultimoRuido = Zero32
    /\ inicioReproduccion = U32(0, 4010)

\* C4: at the entry of loop() ultimoRuido is non-zero only if every sample since
\* it was recorded was above the threshold, and it was recorded within the
\* present uninterrupted run: time before an interruption is not counted.
C4_StampOnlyWhileAbove ==
    (pc = "loop" /\ ultimoRuido # Zero32) =>
        /\ todasSobre
        /\ racha.hay
        /\ Le32(Desde(ultimoRuido), Desde(racha.t))
        /\ Le32(Desde(ultimoRuido), U32(0, 2010))

\* above from 2000 ms, a sample at or below at 2510 ms, above for 1500 ms from
\* 2520 ms: 2020 ms after the first sample nothing has triggered
C4_Witness ==
    /\ pc = "loop"
    /\ ultimoRuido = U32(0, 2520)
    /\ racha = [hay |-> TRUE, t |-> U32(0, 2520)]
    /\ now = U32(0, 4020)
    /\ ~ultimoDisparo.hay

\* reproducirAudio has returned and loop() has not yet gone on
Retornado == pc = "retorno"

\* the stream of the asset being played lasts longer than the cap
StreamMs(a) == ((Assets[a].len - 44) * 125) \div 1000

\* C5: whatever the outcome of reproducirAudio, at its return the DAC holds 0,
\* no file handle is open and reproduciendo is false.
C5_CleanAtReturn ==
    Retornado =>
        /\ resultado \in {"Completed", "MaxDurationExceeded", "StorageUnavailable",
                          "NotFound", "InvalidFormat"}
        /\ dacNivel = 0
        /\ abiertos = 0
        /\ ~archivo.abierto
        /\ ~reproduciendo

\* the return of a playback cut by the cap, the last sample written being non-zero
C5_Witness ==
    /\ Retornado
    /\ resultado = "MaxDurationExceeded"
    /\ dacNivel = 0
    /\ map(FileByte(archivo.asset, archivo.pos - 1), 0, 255, 0, 180) > 0

\* C6: an asset whose stream lasts longer than 30000 ms is stopped by the cap,
\* at the first end of chunk at which more than 30000 ms have elapsed: not
\* more than 64 ms past the cap, and nothing is read or written after that chunk.
C6_StopsAtCap ==
    /\ (pc \in {"fin", "retorno"} /\ llamada.salida = "break") =>
          /\ Gt32(Desde(inicioReproduccion), 30000)
          /\ Le32(Desde(inicioReproduccion), U32(0, 30000 + 64))
          /\ (archivo.pos - 44) % 512 = 0
          /\ (((archivo.pos - 44) - 512) * 125) \div 1000 <= 30000
          /\ llamada.escrituras = (archivo.pos - 44) + (IF Retornado THEN 1 ELSE 0)
    /\ (Retornado /\ llamada.marcada /\ StreamMs(archivo.asset) > 30000) =>
          resultado = "MaxDurationExceeded"
    /\ pc = "stream" => ~Gt32(Desde(inicioReproduccion), 30000)

\* the long asset stopped by the cap with part of its stream unread
C6_Witness ==
    /\ Retornado
    /\ resultado = "MaxDurationExceeded"
    /\ StreamMs(archivo.asset) > 30000
    /\ archivo.pos < Assets[archivo.asset].len
    /\ Desde(inicioReproduccion) = U32(0, 30016)

\* C7: in every step taken while reproduciendo is true, control is inside
\* reproducirAudio: loop() reads no sample, the detector observes nothing and
\* no call of reproducirAudio starts.
C7_NoDetectionWhilePlaying ==
    [][reproduciendo =>
          /\ pc \in {"stream", "fin"}
          /\ llamada.activa
          /\ pc' # "reproducirAudio"
          /\ UNCHANGED <<nivelSonido, evento, ultimoRuido, disparosRacha>>]_vars

\* a playback in its second chunk
C7_Witness ==
    /\ reproduciendo
    /\ pc = "stream"
    /\ archivo.pos = 44 + 512
    /\ ultimoRuido # Zero32

Redondeado(n, s) ==
    LET d == n * 1000 - s * 25
    IN  -500 <= d /\ d <= 500

\* C9: calibration sets umbralRuido to round(m * 2.5), m the exact mean of the
\* 100 baseline samples.
C9_ThresholdIsRoundedMean ==
    pc = "calibrado" => Redondeado(umbralRuido, suma)

\* C10: after calibration umbralRuido is greater than 0.
C10_ThresholdPositive ==
    pc \in {"calibrado", "loop", "reproducirAudio", "stream", "fin", "retorno"} =>
        umbralRuido > 0

\* setup() has ended in the while (1) of its mount failure branch: nothing was
\* calibrated, nothing sampled, nothing played, SD.begin was called once
Detenido ==
    /\ pc = "halt"
    /\ umbralEscrito = 0
    /\ umbralRuido = 0
    /\ i = 0
    /\ suma = 0
    /\ ~muestreado
    /\ montajes = 1
    /\ ~llamada.activa
    /\ ~reproduciendo
    /\ dacNivel = 0
    /\ log = <<>>

\* C11: when SD.begin fails in setup() the system halts for good: every later
\* step stays in the halt, calibration never runs, umbralRuido is never
\* written, loop() never runs and reads no sample, no playback starts and
\* SD.begin is not called again.
C11_BootFailureHalts ==
    [][/\ sdSetup' = "fail" => Detenido'
       /\ sdSetup = "fail" =>
             /\ pc' = "halt"
             /\ UNCHANGED <<umbralRuido, reproduciendo, ultimoRuido, inicioReproduccion,
                            suma, i, nivelSonido, archivo, dacHabilitado, dacNivel,
                            abiertos, evento, resultado, llamada, escrito, log,
                            muestreado, montajes, sdSetup, umbralEscrito>>]_vars

\* three seconds into the halt
C11_Witness ==
    /\ sdSetup = "fail"
    /\ pc = "halt"
    /\ now = U32(0, 3 * HALT_DELAY)

\* the outcomes of reproducirAudio that are asset errors
ErroresDeAsset == {"StorageUnavailable", "NotFound", "InvalidFormat"}

\* the last call of reproducirAudio returned an asset error and every sample
\* read since was above the threshold
TrasError == ultimoRetorno.hay /\ ultimoRetorno.resultado \in ErroresDeAsset

\* C12: after reproducirAudio returns an asset error, loop() polls again with
\* ultimoRuido = 0, and reproducirAudio is called again only by a Triggered
\* whose window of more than 2000 ms of above-threshold samples began after
\* that return: the failed playback is not retried on its own.
C12_NoRetryAfterAssetError ==
    /\ (pc = "loop" /\ TrasError /\ Desde(ultimoRetorno.t) = U32(0, LOOP_DELAY)) =>
          ultimoRuido = Zero32
    /\ (pc \in {"loop", "reproducirAudio"} /\ TrasError /\ ultimoRuido # Zero32) =>
          /\ Le32(U32(0, LOOP_DELAY), Sub32(ultimoRuido, ultimoRetorno.t))
          /\ Le32(Sub32(ultimoRuido, ultimoRetorno.t), Desde(ultimoRetorno.t))
    /\ (Disparado /\ TrasError) =>
          /\ ultimoRuido # Zero32
          /\ todasSobre
          /\ Gt32(Desde(ultimoRuido), 2000)
          /\ Gt32(Desde(ultimoRetorno.t), 2000 + LOOP_DELAY)

\* calm.wav missing at 4010 ms, noise goes on: the next call comes at 6030 ms
C12_Witness ==
    /\ Disparado
    /\ ultimoRetorno = [hay |-> TRUE, t |-> U32(0, 4010), resultado |-> "NotFound"]
    /\ ultimoRuido = U32(0, 4020)
    /\ now = U32(0, 6030)

\* C13: a playback stopped by the 30000 ms cap prints a line that a playback
\* ending at the end of its stream does not print: the lines of a capped call
\* differ from the lines of a completed call.
C13_CapLoggedDistinctly ==
    (Retornado /\ resultado = "MaxDurationExceeded" /\ logCompletado # <<>>) =>
        log # logCompletado

\* umbralRuido has been assigned at most once, only after SD.begin succeeded in
\* setup(), and before loop() read any sample
UmbralUnaVez ==
    /\ umbralEscrito <= 1
    /\ umbralEscrito = 1 => sdSetup = "ok"
    /\ umbralEscrito = 0 => (umbralRuido = 0 /\ ~muestreado)
    /\ pc \in {"calibrado", "loop", "reproducirAudio", "stream", "fin", "retorno"} =>
          umbralEscrito = 1

\* C14: umbralRuido is written exactly once, by calibrarUmbral, before loop()
\* reads its first sample and only after SD.begin succeeded; no later step (a
\* sample, a call of reproducirAudio with any outcome, an iteration of loop())
\* changes it.
C14_ThresholdWrittenOnce ==
    [][/\ UmbralUnaVez'
       /\ umbralEscrito = 1 => UNCHANGED <<umbralRuido, umbralEscrito>>
       /\ (umbralEscrito' # umbralEscrito \/ umbralRuido' # umbralRuido) =>
             /\ pc = "calibrar" /\ i = MUESTRAS
             /\ pc' = "calibrado"
             /\ sdSetup = "ok"
             /\ ~muestreado
             /\ umbralRuido' = UmbralDe(Promedio(suma))]_vars

\* the threshold of calibration still in place after a playback cut by the cap
C14_Witness ==
    /\ Retornado
    /\ resultado = "MaxDurationExceeded"
    /\ umbralEscrito = 1
    /\ umbralRuido = UmbralDe(Promedio(MUESTRAS * MaxCalSample))
    /\ muestreado

\* The program is one sequential thread: once reproducirAudio is called, each
\* of its steps and the return into loop() is taken.
SpecFair ==
    /\ Spec
    /\ WF_vars(reproducirAudio)
    /\ WF_vars(chunk)
    /\ WF_vars(fin)
    /\ WF_vars(loopRetorno)

\* C15: every call of reproducirAudio returns with reproduciendo false (a
\* finite stream at the latest on the zero-length read, a stream longer than
\* the cap because of the cap), and after the return loop() is entered again.
C15_PlaybackReturns ==
    /\ Disparado ~> (Retornado /\ ~reproduciendo)
    /\ Retornado ~> (pc = "loop" /\ ~reproduciendo)

\* back in loop() after a playback that the cap stopped
C15_Witness ==
    /\ pc = "loop"
    /\ ultimoRetorno.hay
    /\ ultimoRetorno.resultado = "MaxDurationExceeded"
    /\ ~reproduciendo

\* the bytes of the file after its 44-byte header, in file order, each as the
\* integer b * 180 div 255
StreamEsperado(a) ==
    [k \in 1..(IF Assets[a].len > HEADER_SIZE THEN Assets[a].len - HEADER_SIZE ELSE 0) |->
        (FileByte(a, HEADER_SIZE + k - 1) * VOLUME_LEVEL) \div 255]

\* C16: a call that starts playing an asset whose stream lasts no longer than
\* the cap ends Completed on the zero-length read, and has written to the DAC
\* exactly the bytes after the 44-byte header, each mapped sample once and in
\* file order across the 512-byte chunks and the final partial chunk, then 0.
C16_StreamWrittenExactly ==
    (Retornado /\ llamada.marcada /\ StreamMs(archivo.asset) <= PLAYBACK_DURATION) =>
        /\ resultado = "Completed"
        /\ llamada.salida = "while"
        /\ llamada.escrituras = Len(StreamEsperado(archivo.asset)) + 1
        /\ Assets[archivo.asset].len >= HEADER_SIZE => archivo.pos = Assets[archivo.asset].len
        /\ escrito.completo
        /\ escrito.v = StreamEsperado(archivo.asset) \o <<0>>

\* a stream of one full chunk and a partial chunk of 100 bytes, played to its end
C16_Witness ==
    /\ Retornado
    /\ resultado = "Completed"
    /\ Assets[archivo.asset].len = HEADER_SIZE + BUFFER_SIZE + 100
    /\ Len(escrito.v) = BUFFER_SIZE + 100 + 1
    /\ escrito.v[BUFFER_SIZE + 1] = (FileByte(archivo.asset, HEADER_SIZE + BUFFER_SIZE) * 180) \div 255

\* the last byte that the for loop has written in the playback in progress
UltimoByte == FileByte(archivo.asset, archivo.pos - 1)

\* C17: every value written to the DAC lies in 0..180: a byte b of the stream
\* is written as b * 180 div 255 (0 as 0, 255 as 180, non-decreasing in b), and
\* the only other value written is 0.
C17_DacWithinVolume ==
    /\ dacNivel \in 0..VOLUME_LEVEL
    /\ \A k \in DOMAIN escrito.v : escrito.v[k] \in 0..VOLUME_LEVEL
    /\ (pc \in {"stream", "fin"} /\ llamada.escrituras > 0) =>
          /\ dacNivel = (UltimoByte * 180) \div 255
          /\ UltimoByte = 0 => dacNivel = 0
          /\ UltimoByte = 255 => dacNivel = 180
          /\ UltimoByte < 255 => dacNivel <= Nivel(UltimoByte + 1)
    /\ (pc \in {"stream", "fin"} /\ escrito.completo) =>
          \A k \in DOMAIN escrito.v :
              escrito.v[k] = (FileByte(archivo.asset, HEADER_SIZE + k - 1) * 180) \div 255
    /\ ~(pc \in {"stream", "fin"} /\ llamada.escrituras > 0) => dacNivel = 0

\* a playback that has written the byte 255 as 180 and the byte 0 as 0
C17_Witness ==
    /\ pc = "fin"
    /\ escrito.completo
    /\ \E k \in DOMAIN escrito.v :
          escrito.v[k] = VOLUME_LEVEL /\ FileByte(archivo.asset, HEADER_SIZE + k - 1) = 255
    /\ \E k \in DOMAIN escrito.v :
          escrito.v[k] = 0 /\ FileByte(archivo.asset, HEADER_SIZE + k - 1) = 0
    /\ dacNivel > 0

\* C18: a call of loop() entered with ultimoRuido = 0 that reads a sample above
\* umbralRuido leaves the detector with the timestamp of that sample, whatever
\* millis() returns (0 after the wrap of the 32-bit counter included), and
\* emits nothing.
C18_IdleAboveStartsWindow ==
    [][(pc = "loop" /\ pc' = "loop" /\ ultimoRuido = Zero32 /\ nivelSonido' > umbralRuido) =>
          /\ ultimoRuido' = now
          /\ ultimoRuido' # Zero32
          /\ evento' = "None"]_vars

\* C19: every call of loop() that is executed pauses 10 ms before it returns,
\* whichever branch it takes: the clock at the entry of a call is at least
\* 10 ms past the clock at the entry of the call before it.
C19_PauseEveryIteration ==
    [][(pc' = "loop" /\ pc \in {"loop", "retorno"}) =>
          /\ Le32(U32(0, LOOP_DELAY), Sub32(now', now))
          /\ pc = "retorno" =>
                /\ ultimoDisparo.hay
                /\ Le32(U32(0, LOOP_DELAY), Sub32(now', ultimoDisparo.t))
                /\ Le32(Sub32(now, ultimoDisparo.t), Sub32(now', ultimoDisparo.t))]_vars

\* loop() entered again 10 ms after a playback that ran to the end of its stream
C19_Witness ==
    /\ pc = "loop"
    /\ ultimoRetorno.hay
    /\ ultimoRetorno.resultado = "Completed"
    /\ Desde(ultimoRetorno.t) = U32(0, LOOP_DELAY)

\* C20: reproduciendo is false at every entry of loop(): it is set only inside
\* reproducirAudio, which clears it before it returns, so the branch of loop()
\* guarded by reproduciendo never runs and its line is never printed.
C20_NotPlayingAtLoopEntry ==
    /\ pc = "loop" => ~reproduciendo
    /\ Retornado => ~reproduciendo
    /\ reproduciendo => (pc \in {"stream", "fin"} /\ llamada.marcada)
    /\ \A k \in DOMAIN log : log[k] # "Reproduccion detenida por tiempo maximo."

\* loop() entered more than 30000 ms after inicioReproduccion, the flag clear
C20_Witness ==
    /\ pc = "loop"
    /\ ~reproduciendo
    /\ inicioReproduccion # Zero32
    /\ Excedido(now, inicioReproduccion)

====
